---- MODULE Spec2Model ----
(***************************************************************************)
(* succinct: a batch pipeline that fetches a list of URLs under a bounded  *)
(* number of worker goroutines, ranks the most used words of each page and *)
(* summarises it.                                                          *)
(*                                                                         *)
(* Spec      processURLs: the coordinator (main goroutine), one worker     *)
(*           goroutine per URL, and the goroutine that ranges over the     *)
(*           results channel and prints.  Two variants of the function are *)
(*           modelled: "main" (src/main.go:53-108, one context per Job)    *)
(*           and "part000" (src/unnamed/part_000:52-99, one context shared *)
(*           by every Job).  The -n flag is 0 here; NumberSpec runs every  *)
(*           value of it.                                                  *)
(* FairSpec  Spec with the weak fairness of the Go scheduler.              *)
(* HangSpec  FairSpec with one Job whose fetch never returns.              *)
(* AllSpec   Spec together with the third processURLs (src/main.go:514-548),*)
(*           a fixed pool of workers fed by a channel.                     *)
(* RankSpec  getMostUsedWords applied to bounded inputs.                   *)
(* FormatSpec formatURL applied to sample URLs, twice in a row.            *)
(* ExtractSpec the text extraction applied to parsed document trees.       *)
(* NumberSpec the pipeline with every value of -n, negative ones included. *)
(***************************************************************************)
EXTENDS Integers, Sequences, FiniteSets, TLC

\* ---------------------------------------------------------------- bounds
MaxURLs == 2
MaxThreads == 2
MaxLen == 5
MaxNumber == 2
MaxTail == 2
MaxKids == 2

\* the values of the -s flag that are explored (0 is rejected by summarizeContent)
SentenceChoices == {0, 1}
Variants == {"main", "part000"}

\* the characters page text is made of: letters in both cases and whitespace
Chars == {"a", "A", "b", " "}
\* the lines an exclude file may hold, as loadExcludedWords stores them
StopUniverse == {<<"a">>, <<"b">>}

VARIABLES
    variant,            \* which processURLs is running
    urls,               \* the input list; Job i is urls[i]
    threads,            \* cap(sem)
    summarySentences,
    sem,                \* len(sem): tokens in the buffered channel
    wg,                 \* the WaitGroup counter
    closed,             \* number of close(results) executed
    expired,            \* part000: the shared context's deadline has passed
    mpc, idx, di,       \* coordinator: position, range index, drain-loop i
    wpc,                \* wpc[i]: position of the worker goroutine of Job i
    outcome,            \* outcome[i]: how the Job's fetch/summarize went
    requests,           \* requests[i]: outbound HTTP requests issued for Job i
    logs,               \* logs[i]: log.Printf calls made for Job i
    released,           \* released[i]: times the worker executed <-sem
    delivered,          \* delivered[i]: results of Job i received by the consumer
    printed,            \* printed[i]: results of Job i fully printed
    cpc, cur,           \* consumer goroutine: position, result in hand
    wurl,               \* wurl[i]: the url argument of the i-th goroutine launched
    content, excludedWords, number,      \* getMostUsedWords: arguments
    rpc, wordFrequency,                  \* getMostUsedWords: position, return value
    hung,               \* the Job whose fetch never returns (0: none)
    pmpc, pspawned,     \* worker-pool processURLs: coordinator position, workers launched
    pidx, pclosed,      \* feeder goroutine: next url to send, close(urlsChan) done
    pw, pcur,           \* pw[w]: position of pool worker w; pcur[w]: the url it holds
    ptaken,             \* ptaken[i]: the pool workers that received url i, in order
    pdone,              \* pdone[i]: times a pool worker finished processing url i
    furl, fpc,          \* formatURL: argument, position
    fout, freq,         \* formatURL: values returned so far, URLs requested so far
    extractor, doc,     \* text extraction: which fetchContent, the parsed tree
    epc, extracted      \* text extraction: position, the content returned

pipeVars == <<variant, urls, threads, summarySentences, sem, wg, closed, expired,
              mpc, idx, di, wpc, outcome, requests, logs, released, delivered,
              printed, cpc, cur, wurl>>
rankVars == <<content, excludedWords, number, rpc, wordFrequency>>
poolVars == <<pmpc, pspawned, pidx, pclosed, pw, pcur, ptaken, pdone>>
fmtVars == <<furl, fpc, fout, freq>>
docVars == <<extractor, doc, epc, extracted>>
otherVars == <<rankVars, hung, poolVars, fmtVars, docVars>>
vars == <<pipeVars, otherVars>>

Jobs == 1..Len(urls)

\* the process is alive until main returns from processURLs (src/main.go:49-50)
Running == mpc /= "exited"

\* ------------------------------------------------------------ coordinator
\* for _, url := range urls { wg.Add(1) ...      and the loop's exit
MAdd ==
    /\ mpc = "range"
    /\ IF idx <= Len(urls)
         THEN /\ wg' = wg + 1
              /\ mpc' = "acquire"
         ELSE /\ mpc' = "drain"
              /\ wg' = wg
    /\ UNCHANGED <<otherVars, wurl, variant, urls, threads, summarySentences, sem, closed, expired,
                   idx, di, wpc, outcome, requests, logs, released, delivered,
                   printed, cpc, cur>>

\* MAcquire with a send that never blocks
MAcquire_NoBlock ==
    /\ mpc = "acquire"
    /\ sem' = sem + 1
    /\ mpc' = "go"
    /\ UNCHANGED <<otherVars, wurl, variant, urls, threads, summarySentences, wg, closed, expired,
                   idx, di, wpc, outcome, requests, logs, released, delivered,
                   printed, cpc, cur>>

\* MAcquire that waits until no worker holds a slot
MAcquire_WaitAll ==
    /\ mpc = "acquire"
    /\ sem = 0 /\ threads > 0
    /\ sem' = sem + 1
    /\ mpc' = "go"
    /\ UNCHANGED <<otherVars, wurl, variant, urls, threads, summarySentences, wg, closed, expired,
                   idx, di, wpc, outcome, requests, logs, released, delivered,
                   printed, cpc, cur>>

\* MAcquire on a semaphore that holds one token even when made with capacity 0
MAcquire_MinOneSlot ==
    /\ mpc = "acquire"
    /\ sem < (IF threads = 0 THEN 1 ELSE threads)
    /\ sem' = sem + 1
    /\ mpc' = "go"
    /\ UNCHANGED <<otherVars, wurl, variant, urls, threads, summarySentences, wg, closed, expired,
                   idx, di, wpc, outcome, requests, logs, released, delivered,
                   printed, cpc, cur>>

\* sem <- struct{}{}   blocks while the buffer is full
MAcquire ==
    /\ mpc = "acquire"
    /\ sem < threads
    /\ sem' = sem + 1
    /\ mpc' = "go"
    /\ UNCHANGED <<otherVars, wurl, variant, urls, threads, summarySentences, wg, closed, expired,
                   idx, di, wpc, outcome, requests, logs, released, delivered,
                   printed, cpc, cur>>

\* MGo with the list walked from its end
MGo_Reversed ==
    /\ mpc = "go"
    /\ wpc' = [wpc EXCEPT ![Len(urls) + 1 - idx] = "fetch"]
    /\ wurl' = [wurl EXCEPT ![Len(urls) + 1 - idx] = urls[Len(urls) + 1 - idx]]
    /\ idx' = idx + 1
    /\ mpc' = "range"
    /\ UNCHANGED <<otherVars, variant, urls, threads, summarySentences, sem, wg, closed, expired,
                   di, outcome, requests, logs, released, delivered, printed, cpc, cur>>

\* MGo with a closure that reads the loop variable instead of taking url as its
\* argument: the goroutine sees the value the loop has reached, here the last
MGo_SharedLoopVar ==
    /\ mpc = "go"
    /\ wpc' = [wpc EXCEPT ![idx] = "fetch"]
    /\ wurl' = [wurl EXCEPT ![idx] = urls[Len(urls)]]
    /\ idx' = idx + 1
    /\ mpc' = "range"
    /\ UNCHANGED <<otherVars, variant, urls, threads, summarySentences, sem, wg, closed, expired,
                   di, outcome, requests, logs, released, delivered, printed, cpc, cur>>

\* go func(url string) {...}(url)
MGo ==
    /\ mpc = "go"
    /\ wpc' = [wpc EXCEPT ![idx] = "fetch"]
    /\ wurl' = [wurl EXCEPT ![idx] = urls[idx]]
    /\ idx' = idx + 1
    /\ mpc' = "range"
    /\ UNCHANGED <<otherVars, variant, urls, threads, summarySentences, sem, wg, closed, expired,
                   di, outcome, requests, logs, released, delivered, printed, cpc, cur>>

\* for i := 0; i < cap(sem); i++ { sem <- struct{}{} }
MDrain ==
    /\ mpc = "drain"
    /\ IF di < threads
         THEN /\ sem < threads
              /\ sem' = sem + 1
              /\ di' = di + 1
              /\ mpc' = mpc
         ELSE /\ mpc' = "wait"
              /\ UNCHANGED <<sem, di>>
    /\ UNCHANGED <<otherVars, wurl, variant, urls, threads, summarySentences, wg, closed, expired,
                   idx, wpc, outcome, requests, logs, released, delivered,
                   printed, cpc, cur>>

\* MWait without the barrier: the coordinator goes on while workers still run
MWait_NoBarrier ==
    /\ mpc = "wait"
    /\ mpc' = "close"
    /\ UNCHANGED <<otherVars, wurl, variant, urls, threads, summarySentences, sem, wg, closed, expired,
                   idx, di, wpc, outcome, requests, logs, released, delivered,
                   printed, cpc, cur>>

\* wg.Wait()
MWait ==
    /\ mpc = "wait"
    /\ wg = 0
    /\ mpc' = "close"
    /\ UNCHANGED <<otherVars, wurl, variant, urls, threads, summarySentences, sem, wg, closed, expired,
                   idx, di, wpc, outcome, requests, logs, released, delivered,
                   printed, cpc, cur>>

\* close(results)
MClose ==
    /\ mpc = "close"
    /\ closed' = closed + 1
    /\ mpc' = "return"
    /\ UNCHANGED <<otherVars, wurl, variant, urls, threads, summarySentences, sem, wg, expired,
                   idx, di, wpc, outcome, requests, logs, released, delivered,
                   printed, cpc, cur>>

\* processURLs returns, main returns, the process exits
MReturn ==
    /\ mpc = "return"
    /\ mpc' = "exited"
    /\ UNCHANGED <<otherVars, wurl, variant, urls, threads, summarySentences, sem, wg, closed, expired,
                   idx, di, wpc, outcome, requests, logs, released, delivered,
                   printed, cpc, cur>>

Main == MAdd \/ MAcquire \/ MGo \/ MDrain \/ MWait \/ MClose \/ MReturn

\* ----------------------------------------------------------------- worker
\* Fail with the error swallowed: the worker returns without logging
Fail_NoLog(i, why) ==
    /\ outcome' = [outcome EXCEPT ![i] = why]
    /\ logs' = logs
    /\ wpc' = [wpc EXCEPT ![i] = "release"]

\* Fail with the slot released on the success path only
Fail_NoRelease(i, why) ==
    /\ outcome' = [outcome EXCEPT ![i] = why]
    /\ logs' = [logs EXCEPT ![i] = @ + 1]
    /\ wpc' = [wpc EXCEPT ![i] = "wgdone"]

\* log.Printf("Error ... for %s: %v", url, err); return
Fail(i, why) ==
    /\ outcome' = [outcome EXCEPT ![i] = why]
    /\ logs' = [logs EXCEPT ![i] = @ + 1]
    /\ wpc' = [wpc EXCEPT ![i] = "release"]

\* CtxDone with a context that the first failing Job cancels for everyone
CtxDone_AnyFailure ==
    \/ variant = "part000" /\ expired
    \/ \E j \in Jobs : logs[j] > 0

\* does a request made with ctx fail because ctx is already done?
CtxDone == variant = "part000" /\ expired

\* formatURL(url) probes the URL with a request of its own before returning it
\* (http.DefaultClient.Do in main.go, http.Head in part_000)
formatURLRequests == 1
\* fetchContent's own request: http.DefaultClient.Do(req) with ctx
fetchContentRequests == 1

\* content, err := fetchContent(ctx, url): formatURL, then the GET with ctx,
\* then the HTML parse; any error is logged and ends the Job
WFetch(i) ==
    /\ Running
    /\ wpc[i] = "fetch"
    /\ \E res \in {"ok", "formatErr", "getErr", "parseErr"} :
         /\ (CtxDone /\ res /= "formatErr") => res = "getErr"
         /\ requests' = [requests EXCEPT ![i] =
                           IF res = "formatErr"
                             THEN @ + formatURLRequests
                             ELSE @ + formatURLRequests + fetchContentRequests]
         /\ IF res = "ok" THEN /\ wpc' = [wpc EXCEPT ![i] = "summarize"]
                               /\ UNCHANGED <<outcome, logs>>
                          ELSE Fail(i, res)
    /\ UNCHANGED <<otherVars, wurl, variant, urls, threads, summarySentences, sem, wg, closed, expired,
                   mpc, idx, di, released, delivered, printed, cpc, cur>>

\* summarizeContent(bag, content, summarySentences)
summarizeContent(n, libOK) == n >= 1 /\ libOK

\* getMostUsedWords(content, excludedWords, number) in the worker of main.go:
\* len(wordFrequency) > number holds for every content when number < 0, and
\* wordFrequency[:number] then panics; part_000 does not rank
RankPanics == variant = "main" /\ number < 0

\* a panic in the worker: nothing is logged or sent, the deferred calls run
Panic(i) ==
    /\ outcome' = [outcome EXCEPT ![i] = "panic"]
    /\ logs' = logs
    /\ wpc' = [wpc EXCEPT ![i] = "release"]

\* summary, err := summarizeContent(...); on success the words are ranked and
\* the result is ready to be sent
WSummarize(i) ==
    /\ Running
    /\ wpc[i] = "summarize"
    /\ \E libOK \in BOOLEAN :
         IF ~summarizeContent(summarySentences, libOK) THEN Fail(i, "sumErr")
         ELSE IF RankPanics THEN Panic(i)
         ELSE /\ wpc' = [wpc EXCEPT ![i] = "send"]
              /\ outcome' = [outcome EXCEPT ![i] = "ok"]
              /\ logs' = logs
    /\ UNCHANGED <<otherVars, wurl, variant, urls, threads, summarySentences, sem, wg, closed, expired,
                   mpc, idx, di, requests, released, delivered, printed, cpc, cur>>

\* results <- result{...}   an unbuffered channel: the send completes together
\* with the consumer's receive
WSend(i) ==
    /\ Running
    /\ wpc[i] = "send"
    /\ cpc = "recv"
    /\ closed = 0
    /\ wpc' = [wpc EXCEPT ![i] = "release"]
    /\ delivered' = [delivered EXCEPT ![i] = @ + 1]
    /\ cpc' = "print"
    /\ cur' = i
    /\ UNCHANGED <<otherVars, wurl, variant, urls, threads, summarySentences, sem, wg, closed, expired,
                   mpc, idx, di, outcome, requests, logs, released, printed>>

\* defer: <-sem
WRelease(i) ==
    /\ Running
    /\ wpc[i] = "release"
    /\ sem > 0
    /\ sem' = sem - 1
    /\ released' = [released EXCEPT ![i] = @ + 1]
    /\ wpc' = [wpc EXCEPT ![i] = "wgdone"]
    /\ UNCHANGED <<otherVars, wurl, variant, urls, threads, summarySentences, wg, closed, expired,
                   mpc, idx, di, outcome, requests, logs, delivered, printed, cpc, cur>>

\* WDone with wg.Done() forgotten
WDone_NoDone(i) ==
    /\ Running
    /\ wpc[i] = "wgdone"
    /\ wg' = wg
    /\ wpc' = [wpc EXCEPT ![i] = "done"]
    /\ mpc' = IF outcome[i] = "panic" THEN "exited" ELSE mpc
    /\ UNCHANGED <<otherVars, wurl, variant, urls, threads, summarySentences, sem, closed, expired,
                   idx, di, outcome, requests, logs, released, delivered,
                   printed, cpc, cur>>

\* defer: wg.Done(); it is the last deferred call, and when the worker is
\* panicking the runtime then ends the whole process
WDone(i) ==
    /\ Running
    /\ wpc[i] = "wgdone"
    /\ wg' = wg - 1
    /\ wpc' = [wpc EXCEPT ![i] = "done"]
    /\ mpc' = IF outcome[i] = "panic" THEN "exited" ELSE mpc
    /\ UNCHANGED <<otherVars, wurl, variant, urls, threads, summarySentences, sem, closed, expired,
                   idx, di, outcome, requests, logs, released, delivered,
                   printed, cpc, cur>>

Worker(i) == WFetch(i) \/ WSummarize(i) \/ WSend(i) \/ WRelease(i) \/ WDone(i)

\* --------------------------------------------------------------- consumer
\* the body of  for res := range results { fmt.Printf ... }
CPrint ==
    /\ Running
    /\ cpc = "print"
    /\ printed' = [printed EXCEPT ![cur] = @ + 1]
    /\ cpc' = "recv"
    /\ cur' = 0
    /\ UNCHANGED <<otherVars, wurl, variant, urls, threads, summarySentences, sem, wg, closed, expired,
                   mpc, idx, di, wpc, outcome, requests, logs, released, delivered>>

\* the range loop ends when the channel is closed
CExit ==
    /\ Running
    /\ cpc = "recv"
    /\ closed > 0
    /\ cpc' = "exit"
    /\ UNCHANGED <<otherVars, wurl, variant, urls, threads, summarySentences, sem, wg, closed, expired,
                   mpc, idx, di, wpc, outcome, requests, logs, released, delivered,
                   printed, cur>>

Consumer == CPrint \/ CExit

\* ---------------------------------------------------------------- context
\* part000: context.WithTimeout(context.Background(), 10*time.Second) made once,
\* before the loop; its deadline may pass at any moment of the run
CtxTimeout ==
    /\ Running
    /\ variant = "part000"
    /\ ~expired
    /\ expired' = TRUE
    /\ UNCHANGED <<otherVars, wurl, variant, urls, threads, summarySentences, sem, wg, closed,
                   mpc, idx, di, wpc, outcome, requests, logs, released, delivered,
                   printed, cpc, cur>>

\* ------------------------------------------- the channel-fed worker pool
\* the third processURLs (src/main.go:514-548): a feeder goroutine sends the
\* urls on the unbuffered urlsChan, threads workers range over it
PoolRunning == pmpc \notin {"idle", "exited"}
PoolWorkers == 1..threads

\* for i := 0; i < threads; i++ { wg.Add(1); go func() {...}() }
PSpawn ==
    /\ pmpc = "spawn"
    /\ IF pspawned < threads
         THEN /\ wg' = wg + 1
              /\ pspawned' = pspawned + 1
              /\ pw' = [pw EXCEPT ![pspawned + 1] = "recv"]
              /\ pmpc' = pmpc
         ELSE /\ pmpc' = "wait"
              /\ UNCHANGED <<wg, pspawned, pw>>
    /\ UNCHANGED <<rankVars, hung, fmtVars, docVars, pidx, pclosed, pcur, ptaken, pdone,
                   variant, urls, threads, summarySentences, sem, closed, expired,
                   mpc, idx, di, wpc, outcome, requests, logs, released, delivered,
                   printed, cpc, cur, wurl>>

\* urlsChan <- url  meets  url := range urlsChan  of worker w
PSend(w) ==
    /\ PoolRunning
    /\ pidx <= Len(urls)
    /\ pw[w] = "recv"
    /\ pw' = [pw EXCEPT ![w] = "work"]
    /\ pcur' = [pcur EXCEPT ![w] = pidx]
    /\ ptaken' = [ptaken EXCEPT ![pidx] = Append(@, w)]
    /\ pidx' = pidx + 1
    /\ UNCHANGED <<rankVars, hung, fmtVars, docVars, pmpc, pspawned, pclosed, pdone,
                   variant, urls, threads, summarySentences, sem, wg, closed, expired,
                   mpc, idx, di, wpc, outcome, requests, logs, released, delivered,
                   printed, cpc, cur, wurl>>

\* close(urlsChan) once every url has been sent
PClose ==
    /\ PoolRunning
    /\ pidx > Len(urls)
    /\ ~pclosed
    /\ pclosed' = TRUE
    /\ UNCHANGED <<rankVars, hung, fmtVars, docVars, pmpc, pspawned, pidx, pw, pcur,
                   ptaken, pdone,
                   variant, urls, threads, summarySentences, sem, wg, closed, expired,
                   mpc, idx, di, wpc, outcome, requests, logs, released, delivered,
                   printed, cpc, cur, wurl>>

\* the loop body: fetchContent, summarizeContent, then Printf or log and continue
PWork(w) ==
    /\ PoolRunning
    /\ pw[w] = "work"
    /\ \E res \in {"fetchErr", "sumErr", "ok"} :
         /\ (res = "ok") => summarizeContent(summarySentences, TRUE)
         /\ outcome' = [outcome EXCEPT ![pcur[w]] = res]
    /\ pdone' = [pdone EXCEPT ![pcur[w]] = @ + 1]
    /\ pw' = [pw EXCEPT ![w] = "recv"]
    /\ pcur' = [pcur EXCEPT ![w] = 0]
    /\ UNCHANGED <<rankVars, hung, fmtVars, docVars, pmpc, pspawned, pidx, pclosed, ptaken,
                   variant, urls, threads, summarySentences, sem, wg, closed, expired,
                   mpc, idx, di, wpc, requests, logs, released, delivered,
                   printed, cpc, cur, wurl>>

\* the range over the closed channel ends; defer wg.Done()
PExit(w) ==
    /\ PoolRunning
    /\ pw[w] = "recv"
    /\ pclosed
    /\ pw' = [pw EXCEPT ![w] = "done"]
    /\ wg' = wg - 1
    /\ UNCHANGED <<rankVars, hung, fmtVars, docVars, pmpc, pspawned, pidx, pclosed, pcur,
                   ptaken, pdone,
                   variant, urls, threads, summarySentences, sem, closed, expired,
                   mpc, idx, di, wpc, outcome, requests, logs, released, delivered,
                   printed, cpc, cur, wurl>>

\* wg.Wait(); processURLs returns and the process exits
PWait ==
    /\ pmpc = "wait"
    /\ wg = 0
    /\ pmpc' = "exited"
    /\ UNCHANGED <<rankVars, hung, fmtVars, docVars, pspawned, pidx, pclosed, pw, pcur,
                   ptaken, pdone,
                   variant, urls, threads, summarySentences, sem, wg, closed, expired,
                   mpc, idx, di, wpc, outcome, requests, logs, released, delivered,
                   printed, cpc, cur, wurl>>

\* ------------------------------------------------------------- formatURL
Http == <<"h", "t", "t", "p", ":", "/", "/">>
Https == <<"h", "t", "t", "p", "s", ":", "/", "/">>

\* strings.HasPrefix(s, prefix)
HasPrefix(s, prefix) ==
    Len(s) >= Len(prefix) /\ SubSeq(s, 1, Len(prefix)) = prefix

\* HasScheme that looks for the letters of the scheme only
HasScheme_LettersOnly(url) == HasPrefix(url, <<"h", "t", "t", "p">>)

\* the test of formatURL's if, negated
HasScheme(url) == HasPrefix(url, Http) \/ HasPrefix(url, Https)

\* if !HasPrefix(url, "http://") && !HasPrefix(url, "https://") { url = "https://" + url }
WithScheme(url) == IF ~HasScheme(url) THEN Https \o url ELSE url

\* formatURL(url): the URL is given its scheme, then probed with a request;
\* res says how the probe went ("badURL": the request could not even be built)
formatURL(url, res) ==
    LET u == WithScheme(url)
    IN  [err |-> res /= "ok",
         url |-> IF res = "ok" THEN u ELSE <<>>,
         requested |-> IF res = "badURL" THEN <<>> ELSE <<u>>]

\* formatURL applied to furl, and then once more to what it returned
FormatURL ==
    /\ fpc \in {"call", "returned"}
    /\ Len(fout) < 2
    /\ \E res \in {"ok", "netErr", "badURL"} :
         LET arg == IF fout = <<>> THEN furl ELSE fout[Len(fout)]
             r == formatURL(arg, res)
         IN  /\ fpc' = IF r.err THEN "error" ELSE "returned"
             /\ fout' = IF r.err THEN fout ELSE Append(fout, r.url)
             /\ freq' = freq \o r.requested
    /\ UNCHANGED <<pipeVars, rankVars, hung, poolVars, docVars, furl>>

\* ------------------------------------------------------- text extraction
\* A node of the parsed tree: html.Node with its Type, its tag or text in Data,
\* and its children in order
Node(type, tag, data, kids) == [type |-> type, tag |-> tag, data |-> data, kids |-> kids]
TextNode(data) == Node("text", "", data, <<>>)
ElementNode(tag, kids) == Node("element", tag, <<>>, kids)
DocumentNode(kids) == Node("document", "", <<>>, kids)

\* strings.TrimSpace
RECURSIVE TrimLeft(_)
TrimLeft(s) == IF s /= <<>> /\ Head(s) = " " THEN TrimLeft(Tail(s)) ELSE s
RECURSIVE TrimRight(_)
TrimRight(s) ==
    IF s /= <<>> /\ s[Len(s)] = " " THEN TrimRight(SubSeq(s, 1, Len(s) - 1)) ELSE s
TrimSpace(s) == TrimRight(TrimLeft(s))

\* extractTextNodes(n); extractChildren is its loop from the k-th child on
RECURSIVE extractTextNodes(_), extractChildren(_, _)
extractTextNodes(n) ==
    IF n.type = "text" THEN TrimSpace(n.data)
    ELSE IF n.type /= "element" THEN <<>>
    ELSE extractChildren(n, 1)
extractChildren(n, k) ==
    IF k > Len(n.kids) THEN <<>>
    ELSE <<" ">> \o extractTextNodes(n.kids[k]) \o extractChildren(n, k + 1)

\* goquery: s.Children(), the element children
IsElement(n) == n.type = "element"
Children(n) == SelectSeq(n.kids, IsElement)

\* goquery: s.Find("*"), the descendant elements in document order
RECURSIVE DescendantsFrom(_, _)
DescendantsFrom(n, k) ==
    IF k > Len(n.kids) THEN <<>>
    ELSE (IF IsElement(n.kids[k])
            THEN <<n.kids[k]>> \o DescendantsFrom(n.kids[k], 1)
            ELSE <<>>) \o DescendantsFrom(n, k + 1)
Descendants(n) == DescendantsFrom(n, 1)

\* goquery: doc.Find("body")
IsBody(n) == n.tag = "body"
FindBody(d) == SelectSeq(Descendants(d), IsBody)

\* goquery: s.Text(), the text of the node and of everything below it
RECURSIVE Text(_), TextFrom(_, _)
Text(n) == IF n.type = "text" THEN n.data ELSE TextFrom(n, 1)
TextFrom(n, k) ==
    IF k > Len(n.kids) THEN <<>> ELSE Text(n.kids[k]) \o TextFrom(n, k + 1)

\* the Each callback over a selection, from its k-th element on
RECURSIVE EachFrom(_, _)
EachFrom(sel, k) ==
    IF k > Len(sel) THEN <<>>
    ELSE (IF Len(Children(sel[k])) = 0 THEN Text(sel[k]) \o <<" ">> ELSE <<>>)
           \o EachFrom(sel, k + 1)

\* doc.Find("body").Find("*").Each(...) over every body found
RECURSIVE goqueryContentFrom(_, _)
goqueryContentFrom(bodies, k) ==
    IF k > Len(bodies) THEN <<>>
    ELSE EachFrom(Descendants(bodies[k]), 1) \o goqueryContentFrom(bodies, k + 1)
goqueryContent(d) == goqueryContentFrom(FindBody(d), 1)

\* the content fetchContent returns for the parsed document: extractTextNodes
\* on the parser's root, or the goquery walk
Extract ==
    /\ epc = "call"
    /\ extracted' = IF extractor = "main" THEN extractTextNodes(doc)
                    ELSE goqueryContent(doc)
    /\ epc' = "returned"
    /\ UNCHANGED <<pipeVars, rankVars, hung, poolVars, fmtVars, extractor, doc>>

\* ----------------------------------------------------------- the ranker
\* strings.ToLower, one character and a whole string
ToLowerChar(c) == IF c = "A" THEN "a" ELSE c
ToLower(w) == [k \in 1..Len(w) |-> ToLowerChar(w[k])]

\* strings.Fields(s): the maximal runs of non-whitespace characters, in order
RECURSIVE FieldsFrom(_, _, _)
FieldsFrom(s, k, word) ==
    IF k > Len(s)
      THEN IF word = <<>> THEN <<>> ELSE <<word>>
      ELSE IF s[k] = " "
             THEN (IF word = <<>> THEN <<>> ELSE <<word>>) \o FieldsFrom(s, k + 1, <<>>)
             ELSE FieldsFrom(s, k + 1, Append(word, s[k]))
Fields(s) == FieldsFrom(s, 1, <<>>)

\* wordCounts with the exclusion looked up before the token is lowercased
wordCounts_RawExclude(words, excluded) ==
    LET kept == {k \in 1..Len(words) : words[k] \notin excluded}
    IN  [w \in {ToLower(words[k]) : k \in kept} |->
            Cardinality({k \in kept : ToLower(words[k]) = w})]

\* the loop that fills wordCounts: every token lowercased, counted unless excluded
wordCounts(words, excluded) ==
    LET kept == {k \in 1..Len(words) : ToLower(words[k]) \notin excluded}
    IN  [w \in {ToLower(words[k]) : k \in kept} |->
            Cardinality({k \in kept : ToLower(words[k]) = w})]

\* the orders in which  for word, count := range wordCounts  may visit the map
RangeOrders(m) ==
    {o \in [1..Cardinality(DOMAIN m) -> DOMAIN m] :
        \A i, j \in DOMAIN o : i /= j => o[i] /= o[j]}

\* Less with the comparison turned round
Less_Ascending(x, y) == x.count < y.count

\* the comparison handed to sort.Slice
Less(x, y) == x.count > y.count

\* sort.Slice(wordFrequency, less): insertion sort, which is what the library
\* runs on slices of at most 12 elements
RECURSIVE InsertSorted(_, _)
InsertSorted(s, x) ==
    IF s = <<>> \/ ~Less(x, s[Len(s)])
      THEN Append(s, x)
      ELSE Append(InsertSorted(SubSeq(s, 1, Len(s) - 1), x), s[Len(s)])
RECURSIVE SortSlice(_)
SortSlice(s) ==
    IF s = <<>> THEN <<>>
    ELSE InsertSorted(SortSlice(SubSeq(s, 1, Len(s) - 1)), s[Len(s)])

\* if len(wordFrequency) > number { wordFrequency = wordFrequency[:number] }
\* a negative bound makes the slice expression panic
Truncate(wf, n) ==
    IF Len(wf) > n
      THEN IF n < 0 THEN [panic |-> TRUE, value |-> <<>>]
                    ELSE [panic |-> FALSE, value |-> SubSeq(wf, 1, n)]
      ELSE [panic |-> FALSE, value |-> wf]

\* getMostUsedWords(content, excludedWords, number) with the map visited in order o
getMostUsedWords(text, excluded, n, o) ==
    LET counts == wordCounts(Fields(text), excluded)
        listed == [k \in DOMAIN o |-> [word |-> o[k], count |-> counts[o[k]]]]
    IN  Truncate(SortSlice(listed), n)

Rank ==
    /\ rpc = "call"
    /\ \E o \in RangeOrders(wordCounts(Fields(content), excludedWords)) :
         LET r == getMostUsedWords(content, excludedWords, number, o)
         IN  /\ rpc' = IF r.panic THEN "panic" ELSE "returned"
             /\ wordFrequency' = r.value
    /\ UNCHANGED <<pipeVars, hung, poolVars, fmtVars, docVars,
                   content, excludedWords, number>>

\* ------------------------------------------------------------------ specs
RankIdle ==
    /\ content = <<>>
    /\ excludedWords = {}
    /\ number = 0
    /\ rpc = "idle"
    /\ wordFrequency = <<>>

\* the worker-pool processURLs is not running
PoolIdle ==
    /\ pmpc = "idle" /\ pspawned = 0 /\ pidx = 1 /\ pclosed = FALSE
    /\ pw = <<>> /\ pcur = <<>> /\ ptaken = <<>> /\ pdone = <<>>

\* formatURL is not under study
FmtIdle == furl = <<>> /\ fpc = "idle" /\ fout = <<>> /\ freq = <<>>

\* text extraction is not under study
DocIdle == extractor = "main" /\ doc = <<>> /\ epc = "idle" /\ extracted = <<>>

\* processURLs is entered with a list of at most maxn URLs
PipeStart(maxn) ==
    /\ variant \in Variants
    /\ \E n \in 0..maxn : urls = [i \in 1..n |-> i]
    /\ threads \in 0..MaxThreads
    /\ summarySentences \in SentenceChoices
    /\ sem = 0
    /\ wg = 0
    /\ closed = 0
    /\ expired = FALSE
    /\ mpc = "range"
    /\ idx = 1
    /\ di = 0
    /\ wpc = [i \in Jobs |-> "idle"]
    /\ outcome = [i \in Jobs |-> "none"]
    /\ requests = [i \in Jobs |-> 0]
    /\ logs = [i \in Jobs |-> 0]
    /\ released = [i \in Jobs |-> 0]
    /\ delivered = [i \in Jobs |-> 0]
    /\ printed = [i \in Jobs |-> 0]
    /\ cpc = "recv"
    /\ cur = 0
    /\ wurl = [i \in Jobs |-> 0]

Init ==
    /\ PipeStart(MaxURLs)
    /\ hung = 0
    /\ RankIdle /\ PoolIdle /\ FmtIdle /\ DocIdle

Next ==
    \/ MAdd \/ MAcquire \/ MGo \/ MDrain \/ MWait \/ MClose \/ MReturn
    \/ \E i \in Jobs : WFetch(i)
    \/ \E i \in Jobs : WSummarize(i)
    \/ \E i \in Jobs : WSend(i)
    \/ \E i \in Jobs : WRelease(i)
    \/ \E i \in Jobs : WDone(i)
    \/ CPrint \/ CExit
    \/ CtxTimeout

Spec == Init /\ [][Next]_vars

\* the Go scheduler runs every goroutine that can take a step; the timer of the
\* shared context is under no obligation to fire during the run
FairSpec ==
    /\ Spec
    /\ WF_vars(Main)
    /\ WF_vars(Consumer)
    /\ \A i \in 1..MaxURLs : WF_vars(i \in Jobs /\ Worker(i))

\* processURLs of main.go with at least two slots, a valid summarySentences and
\* one Job whose fetch never returns: that worker takes no step once launched.
\* wg.Wait() then never returns, so the coordinator's steps after it, and the
\* consumer's exit, cannot happen.
HangInit ==
    /\ PipeStart(MaxURLs + 1)
    /\ variant = "main"
    /\ summarySentences >= 1
    /\ threads >= 2
    /\ hung \in Jobs
    /\ RankIdle /\ PoolIdle /\ FmtIdle /\ DocIdle

HangNext ==
    \/ MAdd \/ MAcquire \/ MGo \/ MDrain
    \/ \E i \in Jobs \ {hung} : WFetch(i)
    \/ \E i \in Jobs : WSummarize(i)
    \/ \E i \in Jobs : WSend(i)
    \/ \E i \in Jobs : WRelease(i)
    \/ \E i \in Jobs : WDone(i)
    \/ CPrint

\* as long as some goroutine can take a step, one of them is scheduled
HangSpec == HangInit /\ [][HangNext]_vars /\ WF_vars(HangNext)

\* the worker-pool processURLs is entered; the semaphore one is not running
PoolInit ==
    /\ variant = "pool"
    /\ \E n \in 0..MaxURLs : urls = [i \in 1..n |-> i]
    /\ threads \in 0..MaxThreads
    /\ summarySentences \in SentenceChoices
    /\ sem = 0 /\ wg = 0 /\ closed = 0 /\ expired = FALSE
    /\ mpc = "idle" /\ idx = 1 /\ di = 0
    /\ wpc = [i \in Jobs |-> "idle"]
    /\ outcome = [i \in Jobs |-> "none"]
    /\ requests = [i \in Jobs |-> 0]
    /\ logs = [i \in Jobs |-> 0]
    /\ released = [i \in Jobs |-> 0]
    /\ delivered = [i \in Jobs |-> 0]
    /\ printed = [i \in Jobs |-> 0]
    /\ cpc = "idle" /\ cur = 0
    /\ wurl = [i \in Jobs |-> 0]
    /\ pmpc = "spawn" /\ pspawned = 0 /\ pidx = 1 /\ pclosed = FALSE
    /\ pw = [w \in PoolWorkers |-> "unborn"]
    /\ pcur = [w \in PoolWorkers |-> 0]
    /\ ptaken = [i \in Jobs |-> <<>>]
    /\ pdone = [i \in Jobs |-> 0]
    /\ hung = 0
    /\ RankIdle /\ FmtIdle /\ DocIdle

PoolNext ==
    \/ PSpawn
    \/ \E w \in PoolWorkers : PSend(w)
    \/ PClose
    \/ \E w \in PoolWorkers : PWork(w)
    \/ \E w \in PoolWorkers : PExit(w)
    \/ PWait

\* every processURLs of the repository: the semaphore ones and the worker pool
AllInit == Init \/ PoolInit
AllNext == Next \/ PoolNext
AllSpec == AllInit /\ [][AllNext]_vars

\* getMostUsedWords on its own: the pipeline stands still
PipeIdle ==
    /\ variant = "main"
    /\ urls = <<>>
    /\ threads = 0
    /\ summarySentences = 1
    /\ sem = 0 /\ wg = 0 /\ closed = 0 /\ expired = FALSE
    /\ mpc = "idle" /\ idx = 1 /\ di = 0
    /\ wpc = <<>> /\ outcome = <<>> /\ requests = <<>> /\ logs = <<>>
    /\ released = <<>> /\ delivered = <<>> /\ printed = <<>>
    /\ cpc = "recv" /\ cur = 0
    /\ wurl = <<>>

BoundedSeq(S, n) == UNION {[1..k -> S] : k \in 0..n}

RankInit ==
    /\ PipeIdle /\ hung = 0 /\ PoolIdle /\ FmtIdle /\ DocIdle
    /\ content \in BoundedSeq(Chars, MaxLen)
    /\ excludedWords \in SUBSET StopUniverse
    /\ number \in -1..MaxNumber
    /\ rpc = "call"
    /\ wordFrequency = <<>>

RankNext == Rank

RankSpec == RankInit /\ [][RankNext]_vars

\* The pipeline run with every value of the -n flag, negative ones included
NumberInit ==
    /\ PipeStart(MaxURLs)
    /\ hung = 0
    /\ content = <<>> /\ excludedWords = {} /\ rpc = "idle" /\ wordFrequency = <<>>
    /\ number \in -1..MaxNumber
    /\ PoolIdle /\ FmtIdle /\ DocIdle

NumberSpec == NumberInit /\ [][Next]_vars

\* formatURL on its own.  The URLs tried: every beginning of "https://" and of
\* "http://", the scheme in capitals or after another character, each followed
\* by a short tail
AllPrefixes(s) == {SubSeq(s, 1, k) : k \in 0..Len(s)}
URLHeads ==
    AllPrefixes(Https) \cup AllPrefixes(Http)
      \cup {<<"H", "T", "T", "P", ":", "/", "/">>, <<"a">> \o Http}
URLSamples == {h \o t : h \in URLHeads, t \in BoundedSeq({"a", "/"}, MaxTail)}

FormatInit ==
    /\ PipeIdle /\ hung = 0 /\ RankIdle /\ PoolIdle /\ DocIdle
    /\ furl \in URLSamples
    /\ fpc = "call"
    /\ fout = <<>>
    /\ freq = <<>>

FormatNext == FormatURL

FormatSpec == FormatInit /\ [][FormatNext]_vars

\* Text extraction on its own.  The documents tried are what the parser
\* builds: a document node over html over head and body; under the body, text
\* runs, empty elements, elements holding one of those, and elements holding
\* up to two of all of these; the parser never leaves two text nodes side by
\* side
TextRuns == {<<"x">>, <<" ", "y">>}
NoAdjacentText(kids) ==
    \A k \in 1..(Len(kids) - 1) : ~(kids[k].type = "text" /\ kids[k + 1].type = "text")
LeafNodes == {TextNode(t) : t \in TextRuns} \cup {ElementNode("img", <<>>)}
InlineNodes == LeafNodes \cup {ElementNode("b", <<l>>) : l \in LeafNodes}
BlockNodes ==
    InlineNodes
      \cup {ElementNode("p", kids) :
              kids \in {q \in BoundedSeq(InlineNodes, 2) : q /= <<>> /\ NoAdjacentText(q)}}
BodyKids == {q \in BoundedSeq(BlockNodes, MaxKids) : NoAdjacentText(q)}
ParsedDocument(kids) ==
    DocumentNode(<<ElementNode("html",
                     <<ElementNode("head", <<>>), ElementNode("body", kids)>>)>>)

ExtractInit ==
    /\ PipeIdle /\ hung = 0 /\ RankIdle /\ PoolIdle /\ FmtIdle
    /\ extractor \in {"main", "part000"}
    /\ doc \in {ParsedDocument(kids) : kids \in BodyKids}
    /\ epc = "call"
    /\ extracted = <<>>

ExtractNext == Extract

ExtractSpec == ExtractInit /\ [][ExtractNext]_vars



\* ----------------------------------------------------------------- claims
Returned == mpc \in {"return", "exited"}
AllDone == \A i \in Jobs : wpc[i] = "done"
FetchErrors == {"formatErr", "getErr", "parseErr"}

Executing == {i \in Jobs : wpc[i] \in {"fetch", "summarize", "send", "release"}}

C2_AtMostNExecuting ==
    threads >= 1 => Cardinality(Executing) <= threads

C2_Witness ==
    /\ threads = 1
    /\ Len(urls) = 2
    /\ mpc = "acquire" /\ idx = 2
    /\ Executing = {1}

\* C3: with threads >= 1 and a fair scheduler processURLs returns; it closes the
\* channel and returns only when every Job's goroutine is finished; and until it
\* has returned some goroutine can always take a step.
CanStep == ENABLED (Main \/ Consumer \/ \E i \in Jobs : Worker(i))

C3_Terminates ==
    /\ [](threads >= 1 => <>(mpc = "exited"))
    /\ [](mpc \in {"close", "return", "exited"} => AllDone /\ idx = Len(urls) + 1)
    /\ [](threads >= 1 /\ Running => CanStep)

C3_Witness ==
    /\ mpc = "exited"
    /\ threads = 1
    /\ Len(urls) = 2
    /\ AllDone

\* C4: a Job's error leaves the others alone: a Job that is about to fetch can
\* still succeed whatever happened to the others (short of the shared deadline
\* of part000), a Job whose fetch and summarize succeeded has its result
\* delivered by the time processURLs returns, and a run in which a Job failed
\* still returns.
C4_FailureIsolation ==
    /\ [](\A i \in 1..MaxURLs :
            (i \in Jobs /\ Running /\ wpc[i] = "fetch" /\ ~(variant = "part000" /\ expired))
              => ENABLED (WFetch(i) /\ wpc'[i] = "summarize"))
    /\ [](Returned => \A i \in Jobs : outcome[i] = "ok" => delivered[i] = 1)
    /\ []((threads >= 1 /\ \E i \in Jobs : logs[i] > 0) => <>(mpc = "exited"))

C4_Witness ==
    /\ mpc = "exited"
    /\ Len(urls) = 2
    /\ outcome[1] \in FetchErrors
    /\ outcome[2] = "ok" /\ delivered[2] = 1

\* C5: when processURLs has returned and the process exits, the consumer has
\* printed every result it received from the results channel.
C5_AllPrintedAtExit ==
    mpc = "exited" => \A i \in Jobs : printed[i] = delivered[i]

\* C6: close(results) runs at most once and only when every worker goroutine
\* has finished, so no worker is at or before its send once the channel is closed.
C6_CloseAfterWorkers ==
    /\ closed <= 1
    /\ closed > 0 => AllDone
    /\ mpc \in {"return", "exited"} => closed = 1

C6_Witness ==
    /\ closed = 1
    /\ Len(urls) = 2
    /\ delivered[1] = 1 /\ delivered[2] = 1

\* C7: a Job gives its slot back at most once, a finished Job has given it back
\* exactly once whichever way it ended, and when every Job is finished the only
\* tokens in sem are those of the coordinator's final loop.
C7_SlotReleasedOnce ==
    /\ \A i \in Jobs : released[i] <= 1
    /\ \A i \in Jobs : wpc[i] \in {"wgdone", "done"} => released[i] = 1
    /\ \A i \in Jobs : wpc[i] \in {"idle", "fetch", "summarize", "send", "release"}
                          => released[i] = 0
    /\ (AllDone /\ idx = Len(urls) + 1) => sem = di

C7_Witness ==
    /\ Len(urls) = 2
    /\ AllDone
    /\ outcome[1] \in FetchErrors /\ released[1] = 1
    /\ outcome[2] = "sumErr" /\ released[2] = 1

\* C8: in a run whose summarySentences is below 1 no request is issued for any URL.
C8_NoRequestWhenInvalid ==
    summarySentences < 1 => \A i \in Jobs : requests[i] = 0

\* C9: a Job issues one outbound request, never more.
C9_SingleRequest ==
    \A i \in Jobs : /\ requests[i] <= 1
                    /\ wpc[i] \notin {"idle", "fetch"} => requests[i] = 1

\* C10: for number >= 0 getMostUsedWords returns; what it returns has at most
\* number entries, each a distinct word of the frequency table with its count,
\* the counts never increase along it, it has number entries if the table has
\* that many, and no word left out has a count above that of a word in it.
C10_TopNDescending ==
    (rpc /= "call" /\ number >= 0) =>
      LET counts == wordCounts(Fields(content), excludedWords)
          wf == wordFrequency
          inOut == {wf[k].word : k \in 1..Len(wf)}
      IN  /\ rpc = "returned"
          /\ Len(wf) <= number
          /\ Len(wf) = IF Cardinality(DOMAIN counts) > number
                         THEN number ELSE Cardinality(DOMAIN counts)
          /\ \A k \in 1..Len(wf) : wf[k].word \in DOMAIN counts
                                   /\ wf[k].count = counts[wf[k].word]
          /\ Cardinality(inOut) = Len(wf)
          /\ \A j, k \in 1..Len(wf) : j < k => wf[j].count >= wf[k].count
          /\ \A w \in DOMAIN counts \ inOut :
                \A k \in 1..Len(wf) : counts[w] <= wf[k].count

C10_Witness ==
    /\ rpc = "returned"
    /\ number = 1
    /\ content = <<"a", " ", "b", " ", "A">>
    /\ excludedWords = {}
    /\ wordFrequency = <<[word |-> <<"a">>, count |-> 2]>>

\* the whitespace-delimited tokens of a text, as pairs of first and last position
TokenSpans(text) ==
    {t \in (1..Len(text)) \X (1..Len(text)) :
        /\ t[1] <= t[2]
        /\ \A k \in t[1]..t[2] : text[k] /= " "
        /\ t[1] = 1 \/ text[t[1] - 1] = " "
        /\ t[2] = Len(text) \/ text[t[2] + 1] = " "}
LoweredToken(text, t) == ToLower(SubSeq(text, t[1], t[2]))

\* C11: every word getMostUsedWords returns is the lowercase form of a token of
\* the text, is not a stopword, and carries the number of tokens that lowercase
\* to it; and when nothing was cut off, every token whose lowercase form is not
\* a stopword is in the output (a token is dropped only for being a stopword).
C11_WordsFromTextNotStopwords ==
    rpc = "returned" =>
      LET wf == wordFrequency
          spans == TokenSpans(content)
      IN  /\ \A k \in 1..Len(wf) :
                /\ wf[k].word \notin excludedWords
                /\ wf[k].count =
                     Cardinality({t \in spans : LoweredToken(content, t) = wf[k].word})
                /\ wf[k].count >= 1
          /\ Len(wf) < number =>
                \A t \in spans :
                   LoweredToken(content, t) \notin excludedWords
                     <=> \E k \in 1..Len(wf) : wf[k].word = LoweredToken(content, t)

C11_Witness ==
    /\ rpc = "returned"
    /\ number = 2
    /\ content = <<"A", " ", "b", " ", "a">>
    /\ excludedWords = {<<"b">>}
    /\ wordFrequency = <<[word |-> <<"a">>, count |-> 2]>>

\* C12: getMostUsedWords returns normally for every text, stopword set and
\* number, and for number <= 0 it returns the empty sequence.
C12_RankerTotal ==
    rpc /= "call" => /\ rpc = "returned"
                     /\ number <= 0 => wordFrequency = <<>>

\* C13: what getMostUsedWords returns does not depend on the order in which the
\* frequency map is ranged over: every order gives the sequence that was returned.
C13_RankerDeterministic ==
    rpc = "returned" =>
      \A o \in RangeOrders(wordCounts(Fields(content), excludedWords)) :
         getMostUsedWords(content, excludedWords, number, o).value = wordFrequency

\* C15: a Job's fetch deadline is its own: a Job that has just been given its
\* slot and has not begun to fetch can still fetch successfully, however long
\* the Jobs before it took and whether or not their deadlines expired.
C15_IndependentDeadlines ==
    \A i \in Jobs :
       (Running /\ wpc[i] = "fetch") => ENABLED (WFetch(i) /\ wpc'[i] = "summarize")

\* C16: goroutines are launched in input order: at every moment the Jobs that
\* have got their slot and been started are exactly those before the range
\* index, so Job j is never started while an earlier Job i is still waiting.
C16_SubmittedInOrder ==
    /\ \A i \in Jobs : wpc[i] /= "idle" <=> i < idx
    /\ \A i, j \in Jobs : (i < j /\ wpc[j] /= "idle") => wpc[i] /= "idle"

C16_Witness ==
    /\ Len(urls) = 2
    /\ wpc[1] = "fetch"
    /\ wpc[2] = "done"

\* C20: a Job whose fetch succeeded has its word-frequency list reported (in the
\* result delivered to the consumer) whether or not its summarization failed.
C20_RankedDespiteSummaryError ==
    \A i \in Jobs :
       (wpc[i] = "done" /\ outcome[i] \in {"ok", "sumErr"}) => delivered[i] = 1

\* C14: with threads >= 2 and one Job whose fetch never returns, every other Job
\* is still started and runs to its end, while the hung Job keeps its slot and
\* never gets past its fetch.
OthersDone == \A i \in Jobs \ {hung} : wpc[i] = "done"

C14_HungFetchDoesNotBlock ==
    /\ [](threads >= 2 => <>OthersDone)
    /\ [](wpc[hung] \in {"idle", "fetch"})

C14_Witness ==
    /\ threads = 2
    /\ Len(urls) = 3
    /\ hung = 1
    /\ wpc = <<"fetch", "done", "done">>

\* C17: every URL of the list is handed to exactly one worker, once.  With a
\* goroutine per URL: no two goroutines get the same URL, and once the loop is
\* over every URL has its goroutine, which has finished by the return.  With
\* the worker pool: no URL is received twice from urlsChan or processed twice,
\* and with threads >= 1 every URL has been received and processed once when
\* processURLs returns.
C17_EachJobOnce ==
    /\ variant /= "pool" =>
         /\ \A u \in Jobs : Cardinality({i \in Jobs : wurl[i] = urls[u]}) <= 1
         /\ idx > Len(urls) =>
              \A u \in Jobs : Cardinality({i \in Jobs : wurl[i] = urls[u]}) = 1
         /\ Returned => \A i \in Jobs : wpc[i] = "done" /\ outcome[i] /= "none"
    /\ variant = "pool" =>
         /\ \A u \in Jobs : Len(ptaken[u]) <= 1 /\ pdone[u] <= Len(ptaken[u])
         /\ (pmpc = "exited" /\ threads >= 1) =>
              \A u \in Jobs : Len(ptaken[u]) = 1 /\ pdone[u] = 1

C17_Witness ==
    /\ variant = "pool"
    /\ pmpc = "exited"
    /\ Len(urls) = 2
    /\ ptaken = << <<2>>, <<1>> >>
    /\ pdone = <<1, 1>>

\* C18: on success formatURL returns "https://" + url if url begins with neither
\* "http://" nor "https://", and url itself if it begins with one of them; every
\* request it issues is for the URL with its scheme; and formatting what it
\* returned returns the same URL again.
BeginsWithScheme(x) ==
    \/ Len(x) >= 7 /\ \A k \in 1..7 : x[k] = Http[k]
    \/ Len(x) >= 8 /\ \A k \in 1..8 : x[k] = Https[k]

C18_SchemeNormalization ==
    /\ Len(fout) >= 1 =>
         /\ ~BeginsWithScheme(furl) <=> fout[1] = Https \o furl
         /\ BeginsWithScheme(furl) <=> fout[1] = furl
         /\ BeginsWithScheme(fout[1])
    /\ Len(fout) = 2 => fout[2] = fout[1]
    /\ \A k \in 1..Len(freq) :
         /\ BeginsWithScheme(freq[k])
         /\ freq[k] = IF BeginsWithScheme(furl) THEN furl ELSE Https \o furl

C18_Witness ==
    /\ fpc = "returned"
    /\ furl = <<"h", "t", "t", "p", "a">>
    /\ fout = <<Https \o furl, Https \o furl>>
    /\ Len(freq) = 2

\* the text runs below a node, trimmed, in document order, blank ones left out
RECURSIVE RunsFrom(_, _)
RunsFrom(n, k) ==
    IF k > Len(n.kids) THEN <<>>
    ELSE (IF n.kids[k].type = "text"
            THEN (IF TrimSpace(n.kids[k].data) = <<>> THEN <<>>
                  ELSE <<TrimSpace(n.kids[k].data)>>)
            ELSE RunsFrom(n.kids[k], 1)) \o RunsFrom(n, k + 1)

\* the first position at or after from where pat occurs in text, 0 if none
FirstAt(text, pat, from) ==
    LET hits == {k \in from..(Len(text) - Len(pat) + 1) :
                   SubSeq(text, k, k + Len(pat) - 1) = pat}
    IN  IF hits = {} THEN 0 ELSE CHOOSE k \in hits : \A j \in hits : k <= j

\* the runs occur in text one after the other, from position from on
RECURSIVE InOrderFrom(_, _, _)
InOrderFrom(text, runs, from) ==
    IF runs = <<>> THEN TRUE
    ELSE LET at == FirstAt(text, Head(runs), from)
         IN  at /= 0 /\ InOrderFrom(text, Tail(runs), at + Len(Head(runs)))

BodyOf(d) == d.kids[1].kids[2]

\* C19: for every parsed document, every text run under the body appears in
\* the extracted text, in document order, with either extraction.
C19_EveryTextRunExtracted ==
    epc = "returned" => InOrderFrom(extracted, RunsFrom(BodyOf(doc), 1), 1)

\* C21: every Job that has ended has either sent exactly one value on the
\* results channel and logged no error, or logged exactly one error and sent
\* nothing; never both and never neither.
C21_SentXorLogged ==
    \A i \in Jobs :
        wpc[i] = "done" =>
            \/ delivered[i] = 1 /\ logs[i] = 0
            \/ delivered[i] = 0 /\ logs[i] = 1

\* C22: with no worker slot and at least one URL, processURLs gets no further
\* than the first slot acquisition: no Job ever starts, nothing is sent or
\* printed, processURLs never returns, and once the coordinator is at the
\* acquisition no goroutine can take a step.
C22_ZeroWorkersDeadlock ==
    (threads = 0 /\ Len(urls) >= 1) =>
        /\ mpc \in {"range", "acquire"}
        /\ idx = 1
        /\ ~Returned
        /\ \A i \in Jobs : wpc[i] = "idle" /\ delivered[i] = 0 /\ printed[i] = 0
        /\ cpc = "recv"
        /\ mpc = "acquire" => (wg = 1 /\ sem = 0 /\ ~CanStep)

C22_Witness ==
    /\ threads = 0
    /\ Len(urls) = MaxURLs
    /\ mpc = "acquire"
    /\ wg = 1
    /\ expired

====
